---- MODULE Spec2Model ----
(***************************************************************************)
(* A model of the notebook src/src/etl.ipynb: the aggregation of the raw   *)
(* event files into one CSV file, the initialisation of the Cassandra      *)
(* keyspace and tables, the batch loader, the three test queries, the drop *)
(* of the tables and the shutdown.  The cells run in the order of the      *)
(* notebook; an exception that no cell catches stops the run (pc =         *)
(* "aborted").  The store is outside the program: each request to it       *)
(* either succeeds or raises, as the store decides.                        *)
(***************************************************************************)
EXTENDS Integers, Sequences, FiniteSets, TLC

VARIABLES
    pc,          \* the statement the run is at
    stdout,      \* what print() has written, in order
    \* ---- aggregate CSV creation
    fs,          \* the raw CSV files under event_data: path -> lines (rows)
    paths,       \* what glob.glob returns: the paths, in discovery order
    output,      \* the rows of OUTPUT_CSV
    read,
    written,
    fileNo,      \* how many paths the for loop has taken
    runs,        \* how many times the aggregation cell has completed
    firstOutput, \* OUTPUT_CSV as the first completed aggregation left it
    \* ---- Cassandra
    cluster,     \* the notebook's name `cluster`: "unbound", "open", "closed"
    session,     \* the notebook's name `session`: "unbound", "open", "closed"
    keyspace,    \* the keyspace set on the session, "" when none
    prepared,    \* the insert queries that session.prepare has bound
    storeKeyspaces, \* the keyspaces the store holds
    storeTables, \* the tables the store holds: name -> set of rows
    storeOps,    \* every request sent to the store, in order
    \* ---- batch loader
    chunksize,
    pos,         \* rows of OUTPUT_CSV that pd.read_csv has yielded
    chunkNo,     \* chunks that pd.read_csv has yielded
    batch,
    batches,
    records,
    submitted,   \* every batch handed to session.execute, with its outcome
                 \* and how much of it the store applied
    reloads,     \* how many times the loader cell has been run again
    firstTables, \* the tables as the first completed load left them
    \* ---- test queries
    rows         \* the notebook's name `rows`

vars == <<pc, stdout, fs, paths, output, read, written, fileNo, runs,
          firstOutput, cluster, session, keyspace, prepared, storeKeyspaces,
          storeTables, storeOps, chunksize, pos, chunkNo, batch, batches,
          records, submitted, reloads, firstTables, rows>>

aggVars == <<fs, paths, output, read, written, fileNo, runs, firstOutput>>
connVars == <<cluster, session, keyspace, prepared>>
storeVars == <<storeKeyspaces, storeTables, storeOps>>
reloadVars == <<reloads, firstTables>>
loadVars == <<chunksize, pos, chunkNo, batch, batches, records, submitted,
              reloadVars>>

----------------------------------------------------------------------------
(* Bounds of the model.                                                    *)

MaxRows == 2        \* data rows of one raw CSV file
MaxRecords == 3     \* data rows of OUTPUT_CSV when the loader starts from it
MaxChunk == 2       \* the chunk sizes tried: 1..MaxChunk
MaxRuns == 2        \* runs of the aggregation cell
MaxPipeRecords == 2 \* data rows of OUTPUT_CSV when the whole notebook runs
MaxReloads == 1     \* runs of the loader cell after its first

Min(a, b) == IF a < b THEN a ELSE b

SeqsUpTo(S, n) == UNION {[1..k -> S] : k \in 0..n}

Ceil(n, w) == (n + w - 1) \div w

RECURSIVE SumLen(_)
SumLen(ss) == IF ss = <<>> THEN 0 ELSE Len(Head(ss)) + SumLen(Tail(ss))

----------------------------------------------------------------------------
(* The aggregate CSV file and the values the loader takes from it.         *)

\* The header row that the aggregation writes and pd.read_csv takes the
\* column names from.
Header == <<"artist_name", "user_first_name", "item_in_session",
            "user_last_name", "song_length", "session_id", "song_title",
            "user_id">>

\* A number as its decimal text gives it: n / d, d a power of ten.
Decimal(n, d) == [num |-> n, den |-> d]

\* Data rows of OUTPUT_CSV the loader is tried on, song_length being the
\* number pd.read_csv reads from the field (495.5, 224.2 and 99.9).  RecC
\* has the (session_id, item_in_session) and the song_title of RecA.
RecA == <<"Faithless", "Ava", "4", "Robinson", Decimal(4955, 10), "338",
          "All Hands Against His Own", "50">>
RecB == <<"Three Drives", "Sylvie", "0", "Cruz", Decimal(2242, 10), "182",
          "Greece 2000", "10">>
RecC == <<"Pavement", "Jacob", "4", "Klein", Decimal(999, 10), "338",
          "All Hands Against His Own", "73">>
RecordSet == {RecA, RecB, RecC}

songs_by_session_columns == <<"session_id", "item_in_session",
                              "artist_name", "song_title", "song_length">>
songs_by_user_columns == <<"user_id", "session_id", "item_in_session",
                           "artist_name", "song_title", "user_first_name",
                           "user_last_name">>
users_by_song_columns == <<"song_title", "user_id", "user_first_name",
                           "user_last_name">>

TableNames == {"songs_by_session", "songs_by_user", "users_by_song"}

\* row[columns].values.tolist(): the row's values under the named columns.
RowValues(header, row, columns) ==
    [k \in 1..Len(columns) |->
        row[CHOOSE i \in 1..Len(header) : header[i] = columns[k]]]

Pow2(n) == 2^n

\* The value a CQL float column takes for the number x, 1 <= x < 2^24: the
\* nearest number with a significand of 24 bits, ties to the even one.  The
\* result is significand / 2^(23 - exponent), the significand in
\* 2^23..2^24 - 1.
Float32(x) ==
    LET e == CHOOSE k \in 0..23 :
                 Pow2(k) * x.den <= x.num /\ x.num < Pow2(k + 1) * x.den
        scale == Pow2(23 - e)
        q == (x.num * scale) \div x.den
        r == (x.num * scale) % x.den
        m == IF 2 * r > x.den \/ (2 * r = x.den /\ q % 2 = 1)
             THEN q + 1 ELSE q
    IN  IF m = Pow2(24) /\ scale > 1
        THEN [num |-> Pow2(23), den |-> scale \div 2]
        ELSE [num |-> m, den |-> scale]

\* The columns the CREATE TABLE statements declare as float.
FloatColumns == {"song_length"}

\* The prepared insert bound to the values: each value is serialised as
\* its column's type.
Bound(columns, values) ==
    [k \in 1..Len(columns) |->
        IF columns[k] \in FloatColumns THEN Float32(values[k])
        ELSE values[k]]

\* Variant: the batch.add call for users_by_song is missing.
RowInserts_TwoTables(header, row, src) ==
    << [query |-> "songs_by_session", src |-> src,
        params |-> Bound(songs_by_session_columns,
                         RowValues(header, row, songs_by_session_columns))],
       [query |-> "songs_by_user", src |-> src,
        params |-> Bound(songs_by_user_columns,
                         RowValues(header, row, songs_by_user_columns))] >>

\* The three batch.add calls of one row; src is the number of the data row
\* the inserts were enqueued for.
RowInserts(header, row, src) ==
    << [query |-> "songs_by_session", src |-> src,
        params |-> Bound(songs_by_session_columns,
                         RowValues(header, row, songs_by_session_columns))],
       [query |-> "songs_by_user", src |-> src,
        params |-> Bound(songs_by_user_columns,
                         RowValues(header, row, songs_by_user_columns))],
       [query |-> "users_by_song", src |-> src,
        params |-> Bound(users_by_song_columns,
                         RowValues(header, row, users_by_song_columns))] >>

\* The inner for loop over df.iterrows(): the inserts of the data rows
\* from..to of the file, appended to the batch b.
RECURSIVE AddRows(_, _, _, _)
AddRows(b, file, from, to) ==
    IF from > to THEN b
    ELSE AddRows(b \o RowInserts(file[1], file[from + 1], from),
                 file, from + 1, to)

\* The number of columns of a table's PRIMARY KEY, which lead its insert's
\* parameters.
KeyLen(table) == IF table = "songs_by_user" THEN 3 ELSE 2

RowKey(table, params) == SubSeq(params, 1, KeyLen(table))

\* Variant: the row is added beside the row of the same primary key.
Upsert_Adds(tables, stmt) ==
    [tables EXCEPT ![stmt.query] = @ \cup {stmt.params}]

\* The store's INSERT: the row replaces the row of the same primary key.
Upsert(tables, stmt) ==
    LET t == stmt.query
        k == RowKey(t, stmt.params)
    IN  [tables EXCEPT ![t] =
            {r \in @ : RowKey(t, r) # k} \cup {stmt.params}]

RECURSIVE ApplyAll(_, _)
ApplyAll(tables, stmts) ==
    IF stmts = <<>> THEN tables
    ELSE ApplyAll(Upsert(tables, Head(stmts)), Tail(stmts))

BatchTables(b) == {b[i].query : i \in 1..Len(b)}

Printed(msg, args) == [msg |-> msg, args |-> args]

\* The value of the name `rows` before any test has bound it.
Unbound == [query |-> "", data |-> {}]

\* A request sent to the store by a stage of the notebook, and whether the
\* store carried it out.
Request(stage, op, ok) == [stage |-> stage, op |-> op, ok |-> ok]

----------------------------------------------------------------------------
(* Batch loader: the cell "Run the process".                               *)

\* batches = 0; records = 0; batch = BatchStatement(...)
LoadBegin ==
    /\ pc = "load"
    /\ batches' = 0
    /\ records' = 0
    /\ batch' = <<>>
    /\ pos' = 0
    /\ chunkNo' = 0
    /\ pc' = "load_for"
    /\ UNCHANGED <<stdout, aggVars, connVars, storeVars, chunksize,
                   submitted, reloadVars, rows>>

\* batch.clear()
BatchClear(b) == <<>>

\* for df in pd.read_csv(OUTPUT_CSV, chunksize=CHUNK_SIZE): the next chunk,
\* and the whole inner loop over its rows.
LoadNextChunk ==
    /\ pc = "load_for"
    /\ LET n == Len(output) - 1
           to == Min(pos + chunksize, n)
       IN  /\ pos < n
           /\ batch' = AddRows(batch, output, pos + 1, to)
           /\ records' = records + 3 * (to - pos)
           /\ pos' = to
    /\ chunkNo' = chunkNo + 1
    /\ pc' = "load_execute"
    /\ UNCHANGED <<stdout, aggVars, connVars, storeVars, chunksize, batches,
                   submitted, reloadVars, rows>>

\* session.execute(batch) returns: the else branch.
LoadExecuteOk ==
    /\ pc = "load_execute"
    /\ BatchTables(batch) \subseteq DOMAIN storeTables
    /\ storeTables' = ApplyAll(storeTables, batch)
    /\ storeOps' = Append(storeOps, Request("load", "batch", TRUE))
    /\ submitted' = Append(submitted,
                           [batch |-> batch, ok |-> TRUE, window |-> chunkNo,
                            applied |-> "all"])
    /\ batch' = BatchClear(batch)
    /\ batches' = batches + 1
    /\ pc' = "load_for"
    /\ UNCHANGED <<stdout, aggVars, connVars, storeKeyspaces, chunksize, pos,
                   chunkNo, records, reloadVars, rows>>

\* How much of the batch b the store applied, k being the number of its
\* statements that were written.
Applied(b, k) ==
    IF k = Len(b) THEN "all" ELSE IF k = 0 THEN "none" ELSE "part"

\* Variant: the except branch raises the exception again.
LoadAfterError_Raises == "aborted"

\* The except branch of the loader: what follows the two prints.
LoadAfterError == "load_for"

\* Variant: the except branch counts the failed batch as well.
LoadExecuteFail_Counts ==
    /\ pc = "load_execute"
    /\ UNCHANGED storeTables
    /\ storeOps' = Append(storeOps, Request("load", "batch", FALSE))
    /\ submitted' = Append(submitted,
                           [batch |-> batch, ok |-> FALSE, window |-> chunkNo,
                            applied |-> "none"])
    /\ stdout' = stdout \o
                 << Printed("Error while processing a batch statement", <<>>),
                    Printed("exception", <<>>) >>
    /\ batches' = batches + 1
    /\ pc' = "load_for"
    /\ UNCHANGED <<aggVars, connVars, storeKeyspaces, chunksize, pos, chunkNo,
                   batch, records, reloadVars, rows>>

\* Variant: the except branch empties the batch.
BatchAfterError_Cleared(b) == <<>>

\* The batch after the except branch, which does not touch it.
BatchAfterError(b) == b

\* session.execute(batch) raises: the except branch.  The store may have
\* applied a part of an unlogged batch; the model tries every leading part.
LoadExecuteFail ==
    /\ pc = "load_execute"
    /\ \E k \in 0..Len(batch) :
          /\ BatchTables(SubSeq(batch, 1, k)) \subseteq DOMAIN storeTables
          /\ storeTables' = ApplyAll(storeTables, SubSeq(batch, 1, k))
          /\ submitted' = Append(submitted,
                                 [batch |-> batch, ok |-> FALSE,
                                  window |-> chunkNo,
                                  applied |-> Applied(batch, k)])
    /\ storeOps' = Append(storeOps, Request("load", "batch", FALSE))
    /\ stdout' = stdout \o
                 << Printed("Error while processing a batch statement", <<>>),
                    Printed("exception", <<>>) >>
    /\ batch' = BatchAfterError(batch)
    /\ pc' = LoadAfterError
    /\ UNCHANGED <<aggVars, connVars, storeKeyspaces, chunksize, pos, chunkNo,
                   batches, records, reloadVars, rows>>

\* The for loop is exhausted: print("Batches: {}\nRecords: {}")
LoadPrint ==
    /\ pc = "load_for"
    /\ pos >= Len(output) - 1
    /\ stdout' = Append(stdout,
                        Printed("Batches: {} Records: {}",
                                <<batches, records>>))
    /\ pc' = "test1"
    /\ UNCHANGED <<aggVars, connVars, storeVars, loadVars, rows>>

NextLoad ==
    \/ LoadBegin
    \/ LoadNextChunk
    \/ LoadExecuteOk
    \/ LoadExecuteFail
    \/ LoadPrint

NoFile == [p \in {} |-> <<>>]

EmptyTables == [t \in TableNames |-> {}]

\* The loader cell on its own: the cells before it have all succeeded, and
\* OUTPUT_CSV holds the header and 1..MaxRecords rows.  (What pd.read_csv
\* yields for a file of the header alone is the parser's affair.)
InitLoad ==
    /\ pc = "load"
    /\ stdout = <<>>
    /\ fs = NoFile /\ paths = <<>> /\ read = 0 /\ written = 0 /\ fileNo = 0
    /\ runs = 0 /\ firstOutput = <<>>
    /\ \E data \in SeqsUpTo(RecordSet, MaxRecords) :
          /\ data # <<>>
          /\ output = <<Header>> \o data
    /\ cluster = "open" /\ session = "open" /\ keyspace = "sparkify"
    /\ prepared = TableNames
    /\ storeKeyspaces = {"sparkify"}
    /\ storeTables = EmptyTables
    /\ storeOps = <<>>
    /\ chunksize \in 1..MaxChunk
    /\ pos = 0 /\ chunkNo = 0 /\ batch = <<>> /\ batches = 0 /\ records = 0
    /\ submitted = <<>>
    /\ reloads = 0 /\ firstTables = <<>>
    /\ rows = Unbound

SpecLoad == InitLoad /\ [][NextLoad]_vars

\* The loop always takes its next step: nothing in the cell waits.
FairSpecLoad == SpecLoad /\ WF_vars(NextLoad)

\* Every batch submitted so far was carried out.
AllSucceeded == \A i \in 1..Len(submitted) : submitted[i].ok

\* The loader cell is run again, against the same file, after a load whose
\* submissions all succeeded.
LoadAgain ==
    /\ pc = "test1"
    /\ AllSucceeded
    /\ reloads < MaxReloads
    /\ reloads' = reloads + 1
    /\ firstTables' = IF reloads = 0 THEN storeTables ELSE firstTables
    /\ pc' = "load"
    /\ UNCHANGED <<stdout, aggVars, connVars, storeVars, chunksize, pos,
                   chunkNo, batch, batches, records, submitted, rows>>

NextReload ==
    \/ NextLoad
    \/ LoadAgain

SpecReload == InitLoad /\ [][NextReload]_vars

----------------------------------------------------------------------------
(* The Cassandra cells: initialisation, tables, prepared inserts.          *)

CellTable == [table1 |-> "songs_by_session", table2 |-> "songs_by_user",
              table3 |-> "users_by_song",
              prepare1 |-> "songs_by_session", prepare2 |-> "songs_by_user",
              prepare3 |-> "users_by_song",
              test1 |-> "songs_by_session", test2 |-> "songs_by_user",
              test3 |-> "users_by_song"]

NextCell == [table1 |-> "table2", table2 |-> "table3", table3 |-> "prepare1",
             prepare1 |-> "prepare2", prepare2 |-> "prepare3",
             prepare3 |-> "load",
             test1 |-> "test2", test2 |-> "test3", test3 |-> "drop"]

TableCells == {"table1", "table2", "table3"}
PrepareCells == {"prepare1", "prepare2", "prepare3"}
TestCells == {"test1", "test2", "test3"}

\* The except branch of the initialisation cell: after its two prints the
\* cell ends, and the notebook goes on to the next cell.
InitAfterError == "table1"

\* The steps of the initialisation's try block, in order.
InitSteps == <<"connect", "create_keyspace", "set_keyspace">>

\* The three steps of the try block all succeed.
InitOk ==
    /\ pc = "init"
    /\ cluster' = "open"
    /\ session' = "open"
    /\ storeKeyspaces' = storeKeyspaces \cup {"sparkify"}
    /\ keyspace' = "sparkify"
    /\ storeOps' = storeOps \o
                   [i \in 1..3 |-> Request("init", InitSteps[i], TRUE)]
    /\ pc' = "table1"
    /\ UNCHANGED <<stdout, aggVars, prepared, storeTables, loadVars, rows>>

\* Step number failed of the try block raises: the steps before it have
\* taken effect, the steps after it are not run, and the except branch
\* prints.
InitFail ==
    /\ pc = "init"
    /\ \E failed \in 1..3 :
          /\ cluster' = "open"
          /\ session' = IF failed > 1 THEN "open" ELSE session
          /\ storeKeyspaces' = IF failed > 2
                               THEN storeKeyspaces \cup {"sparkify"}
                               ELSE storeKeyspaces
          /\ storeOps' = storeOps \o
                         [i \in 1..failed |->
                             Request("init", InitSteps[i], i < failed)]
    /\ stdout' = stdout \o
                 << Printed("Error while initializing the database", <<>>),
                    Printed("exception", <<>>) >>
    /\ pc' = InitAfterError
    /\ UNCHANGED <<aggVars, keyspace, prepared, storeTables, loadVars, rows>>

\* CREATE TABLE IF NOT EXISTS succeeds.
TableOk ==
    /\ pc \in TableCells
    /\ session = "open"
    /\ keyspace \in storeKeyspaces
    /\ storeTables' =
          IF CellTable[pc] \in DOMAIN storeTables THEN storeTables
          ELSE [t \in DOMAIN storeTables \cup {CellTable[pc]} |->
                   IF t \in DOMAIN storeTables THEN storeTables[t] ELSE {}]
    /\ storeOps' = Append(storeOps, Request("table", "create_table", TRUE))
    /\ pc' = NextCell[pc]
    /\ UNCHANGED <<stdout, aggVars, connVars, storeKeyspaces, loadVars, rows>>

\* The try block of a table cell raises: `session` is not bound
\* (NameError, nothing is sent), or the store refuses or fails.  The
\* except branch prints the exception.
TableFail ==
    /\ pc \in TableCells
    /\ storeOps' = IF session = "open"
                   THEN Append(storeOps,
                               Request("table", "create_table", FALSE))
                   ELSE storeOps
    /\ stdout' = Append(stdout, Printed("exception", <<>>))
    /\ pc' = NextCell[pc]
    /\ UNCHANGED <<aggVars, connVars, storeKeyspaces, storeTables, loadVars,
                   rows>>

\* session.prepare returns the prepared insert.
PrepareOk ==
    /\ pc \in PrepareCells
    /\ session = "open"
    /\ keyspace \in storeKeyspaces
    /\ CellTable[pc] \in DOMAIN storeTables
    /\ prepared' = prepared \cup {CellTable[pc]}
    /\ storeOps' = Append(storeOps, Request("prepare", "prepare", TRUE))
    /\ pc' = NextCell[pc]
    /\ UNCHANGED <<stdout, aggVars, cluster, session, keyspace,
                   storeKeyspaces, storeTables, loadVars, rows>>

\* session.prepare raises (`session` is not bound, or the store refuses or
\* fails), and the cell has no try block.
PrepareRaises ==
    /\ pc \in PrepareCells
    /\ storeOps' = IF session = "open"
                   THEN Append(storeOps, Request("prepare", "prepare", FALSE))
                   ELSE storeOps
    /\ pc' = "aborted"
    /\ UNCHANGED <<stdout, aggVars, connVars, storeKeyspaces, storeTables,
                   loadVars, rows>>

----------------------------------------------------------------------------
(* The test queries.                                                       *)

\* The columns of the SELECT of each test, as positions of the table's
\* insert parameters, and the parameters it fixes in its WHERE clause.
TestColumns == [test1 |-> <<3, 4, 5>>, test2 |-> <<4, 5, 6, 7>>,
                test3 |-> <<3, 4>>]
TestWhere == [test1 |-> <<"338", "4">>, test2 |-> <<"10", "182">>,
              test3 |-> <<"All Hands Against His Own">>]

\* The attributes that the test's print reads of each row, as names.
TestSelects == [test1 |-> {"artist_name", "song_title", "song_length"},
                test2 |-> {"artist_name", "song_title", "user_first_name",
                           "user_last_name"},
                test3 |-> {"user_first_name", "user_last_name"}]
TestPrints == TestSelects

\* The rows the store returns for the SELECT of a test.
QueryResult(cell) ==
    LET w == TestWhere[cell]
        hit == {r \in storeTables[CellTable[cell]] :
                   SubSeq(r, 1, Len(w)) = w}
    IN  {[k \in 1..Len(TestColumns[cell]) |-> r[TestColumns[cell][k]]] :
            r \in hit}

\* "for row in rows: print(...)" on the result set rs.
PrintRows(cell, rs) == Printed("rows", <<cell, rs.query, rs.data>>)

\* The SELECT of the cell returns; its rows are bound to `rows` and
\* printed.
TestOk ==
    /\ pc \in TestCells
    /\ session = "open"
    /\ CellTable[pc] \in DOMAIN storeTables
    /\ rows' = [query |-> pc, data |-> QueryResult(pc)]
    /\ stdout' = Append(stdout, PrintRows(pc, rows'))
    /\ storeOps' = Append(storeOps, Request("test", "select", TRUE))
    /\ pc' = NextCell[pc]
    /\ UNCHANGED <<aggVars, connVars, storeKeyspaces, storeTables, loadVars>>

\* The SELECT of the cell raises and the except branch prints.  The for
\* loop after the try block then reads `rows`: not bound yet (NameError,
\* which nothing catches), or still the result set of an earlier test.
\* That result set was iterated to its end once; iterating it again yields
\* nothing or its rows once more, as the driver has it.  Rows that lack an
\* attribute the print reads raise AttributeError.
TestFail ==
    /\ pc \in TestCells
    /\ session = "open"
    /\ storeOps' = Append(storeOps, Request("test", "select", FALSE))
    /\ \E again \in BOOLEAN :
          LET err == IF pc = "test3"
                     THEN << Printed("Error while initializing the database",
                                     <<>>),
                             Printed("exception", <<>>) >>
                     ELSE << Printed("exception", <<>>) >>
              old == IF rows = Unbound \/ ~again THEN {} ELSE rows.data
              raises == \/ rows = Unbound
                        \/ /\ old # {}
                           /\ ~(TestPrints[pc] \subseteq TestSelects[rows.query])
          IN  /\ stdout' = IF raises \/ old = {} THEN stdout \o err
                           ELSE stdout \o err \o
                                <<Printed("rows", <<pc, rows.query, old>>)>>
              /\ pc' = IF raises THEN "aborted" ELSE NextCell[pc]
    /\ UNCHANGED <<aggVars, connVars, storeKeyspaces, storeTables, loadVars,
                   rows>>

----------------------------------------------------------------------------
(* Drop the tables; close the session.                                     *)

DropOrder == <<"songs_by_session", "songs_by_user", "users_by_song">>

\* The tables of ts without those of DropOrder[1..n].
Dropped(ts, n) ==
    [t \in DOMAIN ts \ {DropOrder[i] : i \in 1..n} |-> ts[t]]

\* How many of the three DROP TABLE statements the try block sends when
\* the statement number failed raises (4: none raises).
DropsSent(failed) == Min(failed, 3)

\* The drop cell: one try block around the three DROP TABLE statements.
\* A statement raises when its table does not exist or the store fails.
DropTables ==
    /\ pc = "drop"
    /\ session = "open"
    /\ \E failed \in 1..4 :
          /\ \A i \in 1..(failed - 1) : DropOrder[i] \in DOMAIN storeTables
          /\ storeTables' = Dropped(storeTables, failed - 1)
          /\ storeOps' = storeOps \o
                         [i \in 1..DropsSent(failed) |->
                             Request("drop", DropOrder[i], i < failed)]
          /\ stdout' = IF failed = 4 THEN stdout
                       ELSE stdout \o
                            << Printed("Error while dropping the table", <<>>),
                               Printed("exception", <<>>) >>
    /\ pc' = "close"
    /\ UNCHANGED <<aggVars, connVars, storeKeyspaces, loadVars, rows>>

\* session.shutdown(); cluster.shutdown()
Close ==
    /\ pc = "close"
    /\ session = "open"
    /\ session' = "closed"
    /\ cluster' = "closed"
    /\ storeOps' = storeOps \o << Request("close", "session.shutdown", TRUE),
                                  Request("close", "cluster.shutdown", TRUE) >>
    /\ pc' = "end"
    /\ UNCHANGED <<stdout, aggVars, keyspace, prepared, storeKeyspaces,
                   storeTables, loadVars, rows>>

Next ==
    \/ InitOk
    \/ InitFail
    \/ TableOk
    \/ TableFail
    \/ PrepareOk
    \/ PrepareRaises
    \/ NextLoad
    \/ TestOk
    \/ TestFail
    \/ DropTables
    \/ Close

\* The notebook from the initialisation cell on, run once from a fresh
\* kernel against a fresh store, with OUTPUT_CSV as the aggregation left
\* it: the header and 1..MaxPipeRecords rows.
Init ==
    /\ pc = "init"
    /\ stdout = <<>>
    /\ fs = NoFile /\ paths = <<>> /\ read = 0 /\ written = 0 /\ fileNo = 0
    /\ runs = 0 /\ firstOutput = <<>>
    /\ \E data \in SeqsUpTo(RecordSet, MaxPipeRecords) :
          /\ data # <<>>
          /\ output = <<Header>> \o data
    /\ cluster = "unbound" /\ session = "unbound" /\ keyspace = ""
    /\ prepared = {}
    /\ storeKeyspaces = {}
    /\ storeTables = NoFile
    /\ storeOps = <<>>
    /\ chunksize \in 1..MaxChunk
    /\ pos = 0 /\ chunkNo = 0 /\ batch = <<>> /\ batches = 0 /\ records = 0
    /\ submitted = <<>>
    /\ reloads = 0 /\ firstTables = <<>>
    /\ rows = Unbound

Spec == Init /\ [][Next]_vars

----------------------------------------------------------------------------
(* Aggregate CSV creation.                                                 *)

\* The files that glob.glob(INPUT_DIR_SEARCH_PATTERN) may find.
InputPaths == {"event_data/2018-11-01-events.csv",
               "event_data/2018-11-02-events.csv"}

\* The columns of a raw event file, which are its header line.
RawHeader == <<"artist", "auth", "firstName", "gender", "itemInSession",
               "lastName", "length", "level", "location", "method", "page",
               "registration", "sessionId", "song", "status", "ts",
               "userId">>

\* A raw row of len fields: the page in field 10, and every other field
\* told apart by the row's tag and its column.
RawRow(tag, page, len) ==
    [i \in 1..len |-> IF i = 11 THEN page ELSE tag \o RawHeader[i]]

\* The raw rows tried: two song plays, another event, and three rows that
\* are short of fields.
RawRowSet == { RawRow("a.", "NextSong", 17),
               RawRow("b.", "NextSong", 17),
               RawRow("c.", "Home", 17),
               RawRow("d.", "Home", 12),
               RawRow("e.", "NextSong", 16),
               RawRow("f.", "Home", 10) }

\* A raw file: nothing at all, or the header line and up to MaxRows rows.
RawFiles == {<<>>} \cup {<<RawHeader>> \o rs : rs \in SeqsUpTo(RawRowSet, MaxRows)}

\* The orders in which a set of paths can be discovered.
Orders(S) ==
    {o \in [1..Cardinality(S) -> S] : \A i, j \in DOMAIN o : o[i] = o[j] => i = j}

\* Variant: the output file is opened for appending.
OpenWrite_Appends(content) == content

\* open(OUTPUT_CSV, "w"): what is left of the file's previous content.
OpenWrite(content) == <<>>

\* Variant: the event type is looked for one field to the left.
IsMusicEvent_ByMethod(row) == row[10] = "NextSong"

\* row[10] == "NextSong" (the fields of a row are numbered from 0 in the
\* notebook and from 1 here).
IsMusicEvent(row) == row[11] = "NextSong"

\* The tuple passed to writer.writerow for a music event.
WrittenRow(row) ==
    <<row[1], row[3], row[5], row[6], row[7], row[13], row[14], row[17]>>

\* Variant: the row that raises is skipped.
OnIndexError_Skips(st) == st

\* An index of the row is out of range: IndexError, which nothing catches.
OnIndexError(st) == [st EXCEPT !.failed = TRUE]

\* One pass of "for row in reader" on the state st of the cell.
ReadRow(st, row) ==
    LET st1 == [st EXCEPT !.read = @ + 1]
    IN  IF Len(row) < 11 THEN OnIndexError(st1)
        ELSE IF ~IsMusicEvent(row) THEN st1
        ELSE IF Len(row) < 17 THEN OnIndexError(st1)
        ELSE [st1 EXCEPT !.out = Append(@, WrittenRow(row)),
                         !.written = @ + 1]

RECURSIVE ReadRows(_, _)
ReadRows(st, rs) ==
    IF rs = <<>> \/ st.failed THEN st
    ELSE ReadRows(ReadRow(st, Head(rs)), Tail(rs))

\* The body of "for path in glob.glob(...)" for one file: next(reader)
\* skips the first line (StopIteration when there is none), then the rows.
ReadFile(st, file) ==
    IF file = <<>> THEN [st EXCEPT !.failed = TRUE]
    ELSE ReadRows(st, Tail(file))

\* read = 0; written = 0; the output file is opened and the header written;
\* glob.glob lists the input files.
AggBegin ==
    /\ pc \in {"agg", "agg_done"}
    /\ read' = 0
    /\ written' = 0
    /\ output' = Append(OpenWrite(output), Header)
    /\ fileNo' = 0
    /\ pc' = "agg_for"
    /\ UNCHANGED <<stdout, fs, paths, runs, firstOutput, connVars, storeVars,
                   loadVars, rows>>

\* The next path of the for loop, and the whole of its file.
AggFile ==
    /\ pc = "agg_for"
    /\ fileNo < Len(paths)
    /\ LET st == ReadFile([out |-> output, read |-> read,
                           written |-> written, failed |-> FALSE],
                          fs[paths[fileNo + 1]])
       IN  /\ output' = st.out
           /\ read' = st.read
           /\ written' = st.written
           /\ pc' = IF st.failed THEN "aborted" ELSE "agg_for"
    /\ fileNo' = fileNo + 1
    /\ UNCHANGED <<stdout, fs, paths, runs, firstOutput, connVars, storeVars,
                   loadVars, rows>>

\* The loop is exhausted and the output file closed:
\* print("Read: {}\nWritten: {}\nDiscarded: {}")
AggPrint ==
    /\ pc = "agg_for"
    /\ fileNo = Len(paths)
    /\ stdout' = Append(stdout,
                        Printed("Read: {} Written: {} Discarded: {}",
                                <<read, written, read - written>>))
    /\ runs' = runs + 1
    /\ firstOutput' = IF runs = 0 THEN output ELSE firstOutput
    /\ pc' = IF runs + 1 < MaxRuns THEN "agg_done" ELSE "init"
    /\ UNCHANGED <<fs, paths, output, read, written, fileNo, connVars,
                   storeVars, loadVars, rows>>

NextAgg ==
    \/ AggBegin
    \/ AggFile
    \/ AggPrint

\* The aggregation cell on its own, run MaxRuns times on the same files:
\* any files under event_data, found in any order, and an OUTPUT_CSV left
\* by some earlier run.
InitAgg ==
    /\ pc = "agg"
    /\ stdout = <<>>
    /\ \E S \in SUBSET InputPaths :
          /\ fs \in [S -> RawFiles]
          /\ paths \in Orders(S)
    /\ output \in {<<>>, <<Header, RecA>>}
    /\ read = 0 /\ written = 0 /\ fileNo = 0
    /\ runs = 0 /\ firstOutput = <<>>
    /\ cluster = "unbound" /\ session = "unbound" /\ keyspace = ""
    /\ prepared = {}
    /\ storeKeyspaces = {}
    /\ storeTables = NoFile
    /\ storeOps = <<>>
    /\ chunksize = 1
    /\ pos = 0 /\ chunkNo = 0 /\ batch = <<>> /\ batches = 0 /\ records = 0
    /\ submitted = <<>>
    /\ reloads = 0 /\ firstTables = <<>>
    /\ rows = Unbound

SpecAgg == InitAgg /\ [][NextAgg]_vars

----------------------------------------------------------------------------
(* The batch loader's claims, under SpecLoad.                              *)

NumRecords == Len(output) - 1

LoadDone == pc = "test1"

\* The data rows of the k-th window of the file.
WindowRows(k) ==
    ((k - 1) * chunksize + 1) .. Min(k * chunksize, NumRecords)

SubmittedBatches == [i \in 1..Len(submitted) |-> submitted[i].batch]

OkSubmissions == {i \in 1..Len(submitted) : submitted[i].ok}

FailedSubmissions == {i \in 1..Len(submitted) : ~submitted[i].ok}

\* What the loader's last print gave for Batches and Records.
LoadMetrics == stdout[Len(stdout)].args

\* C1 (as claimed): when the submission of a window's batch fails, the
\* batch submitted for the next window holds no insert that was enqueued
\* for the failed window.
C1_FailedBatchDiscarded ==
    \A i \in 1..(Len(submitted) - 1) :
        ~submitted[i].ok =>
            \A j \in 1..Len(submitted[i + 1].batch) :
                submitted[i + 1].batch[j].src
                    \notin WindowRows(submitted[i].window)

\* C2 (as claimed): a load of N records in windows of W makes ceil(N / W)
\* submissions, and the submitted batches hold 3 * N inserts in all,
\* whichever submissions fail.
C2_SubmissionsAndInserts ==
    LoadDone =>
        /\ Len(submitted) = Ceil(NumRecords, chunksize)
        /\ SumLen(SubmittedBatches) = 3 * NumRecords

\* C3 (as claimed): at the end of a load the Batches counter is the number
\* of batches submitted, failed ones included, and Records is 3 * N.
C3_BatchesCountsSubmitted ==
    LoadDone => LoadMetrics = <<Len(submitted), 3 * NumRecords>>

\* C3 (amended): at the end of a load the Batches counter is the number of
\* submissions that succeeded, and Records is 3 * N whichever submissions
\* failed.
C3_BatchesCountsSucceeded ==
    LoadDone =>
        LoadMetrics = <<Cardinality(OkSubmissions), 3 * NumRecords>>

C3_Witness ==
    /\ LoadDone
    /\ OkSubmissions # {}
    /\ FailedSubmissions # {}

----------------------------------------------------------------------------
(* The claims on the tables' contents after a load, under SpecLoad.        *)

\* The parameters of the insert into table t enqueued for data row src.
RecordInsert(t, src) ==
    LET inserts == RowInserts(output[1], output[src + 1], src)
    IN  inserts[CHOOSE i \in 1..Len(inserts) : inserts[i].query = t].params

\* The primary key that data row src of the file has in table t.
RecordKey(t, src) == RowKey(t, RecordInsert(t, src))

\* Table t holds a row under the key of data row src.
Represented(t, src) ==
    \E r \in storeTables[t] : RowKey(t, r) = RecordKey(t, src)

\* How many inserts into table t the batch b holds for data row src.
InsertsFor(b, t, src) ==
    Cardinality({j \in 1..Len(b) : b[j].query = t /\ b[j].src = src})

\* Every submission so far was applied wholly or not at all.
WhollyOrNotAtAll ==
    \A i \in 1..Len(submitted) :
        submitted[i].applied \in {"all", "none"}

\* The data rows that were part of a submission the store applied.
AppliedRecords ==
    {src \in 1..NumRecords :
        \E i \in 1..Len(submitted) :
            /\ submitted[i].applied = "all"
            /\ \E j \in 1..Len(submitted[i].batch) :
                  submitted[i].batch[j].src = src}

\* Every submitted batch holds, for each data row, one insert for each of
\* the three tables or no insert at all.
InsertsTogether ==
    \A i \in 1..Len(submitted) : \A src \in 1..NumRecords :
        \/ \A t \in TableNames : InsertsFor(submitted[i].batch, t, src) = 1
        \/ \A t \in TableNames : InsertsFor(submitted[i].batch, t, src) = 0

\* C11 (as claimed): the three inserts of a record go into the same
\* submission, one for each table; hence, when every submission is applied
\* wholly or not at all, after a load every record has its key in all
\* three tables or in none of them.
C11_KeyInAllTablesOrNone ==
    /\ InsertsTogether
    /\ (LoadDone /\ WhollyOrNotAtAll) =>
          \A src \in 1..NumRecords :
              \/ \A t \in TableNames : Represented(t, src)
              \/ \A t \in TableNames : ~Represented(t, src)

\* C11 (amended): the three inserts of a record go into the same
\* submission, one for each table; hence, when every submission is applied
\* wholly or not at all, after a load every record that was part of an
\* applied submission has its key in all three tables, and a record that
\* was part of none has its key in a table only where an applied record
\* has the same key in that table.
C11_AppliedInAllTables ==
    /\ InsertsTogether
    /\ (LoadDone /\ WhollyOrNotAtAll) =>
          \A src \in 1..NumRecords :
              IF src \in AppliedRecords
              THEN \A t \in TableNames : Represented(t, src)
              ELSE \A t \in TableNames :
                      Represented(t, src) =>
                          \E other \in AppliedRecords :
                              RecordKey(t, other) = RecordKey(t, src)

C11_Witness ==
    /\ LoadDone
    /\ WhollyOrNotAtAll
    /\ AppliedRecords # {}
    /\ \E src \in 1..NumRecords :
          /\ src \notin AppliedRecords
          /\ Represented("songs_by_session", src)
          /\ ~Represented("songs_by_user", src)

----------------------------------------------------------------------------
(* The claims on what a failed submission leaves in the batch, under       *)
(* SpecLoad.                                                               *)

\* The three inserts enqueued for data row src.
InsertsOf(src) == RowInserts(output[1], output[src + 1], src)

\* The batch b holds the insert ins.
Holds(b, ins) == \E j \in 1..Len(b) : b[j] = ins

\* The insert ins was part of a submission that succeeded.
Delivered(ins) ==
    \E i \in OkSubmissions : Holds(submitted[i].batch, ins)

----------------------------------------------------------------------------
(* The claims on running the loader again, under SpecReload.               *)

\* The window (chunk) of the file that data row src falls into.
WindowOf(src) == Ceil(src, chunksize)

\* Each table holds at most one row under a primary key.
OneRowPerKey ==
    \A t \in DOMAIN storeTables : \A r1, r2 \in storeTables[t] :
        RowKey(t, r1) = RowKey(t, r2) => r1 = r2

\* A record whose key in a table is shared only with records of earlier
\* windows has its own values in the table's row of that key.
LaterWindowWins ==
    \A t \in TableNames : \A src \in 1..NumRecords :
        (\A other \in 1..NumRecords :
            (other # src /\ RecordKey(t, other) = RecordKey(t, src))
                => WindowOf(other) < WindowOf(src))
        => RecordInsert(t, src) \in storeTables[t]

\* C12: when all submissions succeed, running the loader a second time
\* against the same file leaves the three tables as the first run left
\* them; records sharing a table key overwrite one another, the later
\* submission winning, and each table holds at most one row per key.
C12_ReloadLeavesTables ==
    /\ OneRowPerKey
    /\ (LoadDone /\ AllSucceeded) => LaterWindowWins
    /\ (LoadDone /\ AllSucceeded /\ reloads >= 1) => storeTables = firstTables

C12_Witness ==
    /\ LoadDone
    /\ AllSucceeded
    /\ reloads >= 1
    /\ storeTables = firstTables
    /\ \E src, other \in 1..NumRecords :
          /\ WindowOf(other) < WindowOf(src)
          /\ RecordKey("songs_by_session", other)
                = RecordKey("songs_by_session", src)
          /\ RecordInsert("songs_by_session", other)
                # RecordInsert("songs_by_session", src)

----------------------------------------------------------------------------
(* The aggregation's claims, under SpecAgg.                                *)

\* The cell has run to its end at least once and is not running.
AggDone == pc \in {"agg_done", "init"}

\* The data rows of the input, in discovery order and then file order.
RECURSIVE InputRows(_)
InputRows(ps) ==
    IF ps = <<>> THEN <<>>
    ELSE (IF fs[Head(ps)] = <<>> THEN <<>> ELSE Tail(fs[Head(ps)]))
         \o InputRows(Tail(ps))

\* Every input file has its header line and rows of the 17 columns.
WellFormedInput ==
    \A p \in DOMAIN fs :
        /\ fs[p] # <<>>
        /\ \A i \in 2..Len(fs[p]) : Len(fs[p][i]) = Len(RawHeader)

ProjectedFields == <<0, 2, 4, 5, 6, 12, 13, 16>>

Projection(row) ==
    [k \in 1..Len(ProjectedFields) |-> row[ProjectedFields[k] + 1]]

Qualifies(row) == Len(row) > 10 /\ row[11] = "NextSong"

RECURSIVE MapProjection(_)
MapProjection(rs) ==
    IF rs = <<>> THEN <<>>
    ELSE <<Projection(Head(rs))>> \o MapProjection(Tail(rs))

AggMetrics == stdout[Len(stdout)].args

\* C5: on well-formed input files the output file is the header followed
\* by the projections (fields 0, 2, 4, 5, 6, 12, 13, 16) of exactly the
\* rows whose field 10 is "NextSong", in discovery order and row order,
\* and the counters printed are: read = all data rows, written = output
\* data rows, discarded = read - written.
C5_AggregatorResult ==
    (AggDone /\ WellFormedInput) =>
        LET all == InputRows(paths)
            kept == SelectSeq(all, Qualifies)
        IN  /\ output = <<Header>> \o MapProjection(kept)
            /\ Len(output) - 1 = Len(kept)
            /\ AggMetrics = <<Len(all), Len(output) - 1,
                              Len(all) - (Len(output) - 1)>>

C5_Witness ==
    /\ AggDone
    /\ WellFormedInput
    /\ Len(paths) = 2
    /\ \E i \in 1..Len(InputRows(paths)) : ~Qualifies(InputRows(paths)[i])
    /\ Len(output) = 3
    /\ output[2] # output[3]

ShortRows == {i \in 1..Len(InputRows(paths)) :
                 Len(InputRows(paths)[i]) < Len(RawHeader)}

\* The rows on which the cell raises: the event field is missing, or the
\* row is a music event and a projected field is missing.
FatalRows == {i \in 1..Len(InputRows(paths)) :
                 LET r == InputRows(paths)[i]
                 IN  Len(r) < 11 \/ (r[11] = "NextSong" /\ Len(r) < 17)}

\* C6 (as claimed): a data row of fewer than 17 fields, whatever its event
\* type, aborts the run: no run with such a row completes.
C6_ShortRowIsFatal ==
    AggDone => ShortRows = {}

\* C6 (amended): a data row of fewer than 11 fields, and a "NextSong" row
\* of fewer than 17 fields, abort the run; a row of 11 to 16 fields whose
\* event type is not "NextSong" is counted as read and discarded like any
\* other such row.
C6_FatalRowAborts ==
    /\ AggDone => FatalRows = {}
    /\ (AggDone /\ ShortRows # {}) =>
          AggMetrics[3] >= Cardinality(ShortRows)

C6_Witness ==
    /\ pc = "aborted"
    /\ FatalRows # {}
    /\ \E i \in FatalRows : Len(InputRows(paths)[i]) > 10

\* C7: a second run of the aggregation on the same input, discovered in
\* the same order, leaves an output file identical to the one the first
\* run left: nothing of the previous run survives or is appended to.
C7_RerunSameOutput ==
    (AggDone /\ runs >= 2) => output = firstOutput

C7_Witness ==
    /\ AggDone
    /\ runs >= 2
    /\ Len(output) > 2

----------------------------------------------------------------------------
(* The claims on the Cassandra cells, under Spec.                          *)

Requests(stage) == {i \in 1..Len(storeOps) : storeOps[i].stage = stage}

FailedRequests(stage) == {i \in Requests(stage) : ~storeOps[i].ok}

\* C8 (as claimed): when connecting to the store or creating the keyspace
\* fails, the pipeline halts: no later stage sends the store any request.
C8_InitFailureHalts ==
    (\E i \in FailedRequests("init") :
        storeOps[i].op \in {"connect", "create_keyspace"})
    => \A j \in 1..Len(storeOps) : storeOps[j].stage = "init"

\* C9 (as claimed): a DROP TABLE that fails does not keep the other two
\* from being attempted, and after the drops the session and then the
\* cluster are shut down.
C9_DropsIndependent ==
    /\ pc \in {"close", "end"} =>
          \A t \in TableNames :
              \E i \in Requests("drop") : storeOps[i].op = t
    /\ pc = "end" =>
          /\ session = "closed"
          /\ cluster = "closed"
          /\ storeOps[Len(storeOps) - 1].op = "session.shutdown"
          /\ storeOps[Len(storeOps)].op = "cluster.shutdown"

\* C10 (as claimed): when the execution of a test query fails, the failure
\* is printed, the remaining test queries are still executed and no error
\* goes uncaught.
C10_TestFailureIsolated ==
    FailedRequests("test") # {} =>
        /\ pc # "aborted"
        /\ pc \in {"drop", "close", "end"} =>
              Cardinality(Requests("test")) = 3

----------------------------------------------------------------------------
(* The claims on the verification queries' results, under Spec.            *)

\* The value of data row src of the file under the column col.
Field(src, col) ==
    output[src + 1][CHOOSE i \in 1..Len(output[1]) : output[1][i] = col]

\* The data rows of the file that have the values vals under the columns
\* cols.
RowsWith(cols, vals) ==
    {src \in 1..NumRecords :
        \A k \in 1..Len(cols) : Field(src, cols[k]) = vals[k]}

\* Two fractions are the same number.
SameNumber(a, b) == a.num * b.den = b.num * a.den

\* The load has gone through the whole file and every submission succeeded.
LoadSucceeded == pos = NumRecords /\ submitted # <<>> /\ AllSucceeded

\* C13: after a load in which all submissions succeed, the query on
\* songs_by_session for a (session_id, item_in_session) that exactly one
\* row of the file has returns exactly one result, whose artist_name,
\* song_title and song_length equal that row's values; the query on
\* users_by_song for a song_title that no row has returns no result.
C13_QueryReturnsLoadedRow ==
    LoadSucceeded =>
        /\ (pc = NextCell["test1"] /\ rows.query = "test1") =>
              \A src \in 1..NumRecords :
                  RowsWith(<<"session_id", "item_in_session">>,
                           TestWhere["test1"]) = {src}
                  => \E r \in rows.data :
                        /\ rows.data = {r}
                        /\ r[1] = Field(src, "artist_name")
                        /\ r[2] = Field(src, "song_title")
                        /\ SameNumber(r[3], Field(src, "song_length"))
        /\ (pc = NextCell["test3"] /\ rows.query = "test3") =>
              (RowsWith(<<"song_title">>, TestWhere["test3"]) = {}
                  => rows.data = {})

====
